---- MODULE Spec2Model ----
(***************************************************************************)
(* Model of the salsify sender (src/src/frontend/salsify-sender.cc): the   *)
(* poller's four handlers (input, encode_started_pipe, encode_ended_pipe,  *)
(* socket), the timer thread, the per-generation coordinator thread, the   *)
(* asynchronous encode jobs, and the pure function target_size.            *)
(*                                                                         *)
(* Fixed-width unsigned integers are kept bit-exact as little-endian       *)
(* tuples of 16-bit limbs: uint64_t is <<l1, l2, l3, l4>> (value           *)
(* l1 + l2*2^16 + l3*2^32 + l4*2^48) and uint32_t is <<l1, l2>>.           *)
(***************************************************************************)
EXTENDS Integers, Sequences, FiniteSets, TLC

VARIABLES
  status,               \* "running" | "exit_failure" (main returned) | "crashed"
  y_ac_qi,              \* const unsigned int y_ac_qi (argv[1])
  connection_id,        \* const uint16_t connection_id (argv[4])
  rasters_read,         \* frames the YUV4MPEG reader has delivered so far
  last_raster,          \* Optional<RasterHandle>: NoRaster or a raster id
  avg_delay,            \* uint32_t, two limbs
  last_acked,           \* uint64_t, four limbs
  cumulative_fpf,       \* vector<uint64_t>
  skipped_count,        \* size_t
  encoder,              \* the committed Encoder: the frames it has encoded
  frame_no,             \* unsigned int
  encode_jobs,          \* vector<EncodeJob>
  encode_outputs,       \* vector<future<EncodeOutput>>
  encode_started_pipe,  \* wake tokens written by the timer, not yet read
  encode_ended_pipe,    \* wake tokens written by coordinators, not yet read
  ticks_written,        \* tokens the timer thread has written so far
  socket_in,            \* ack datagrams received by the socket, not yet read
  acks_arrived,         \* ack datagrams that have arrived so far
  wire,                 \* FragmentedFrames sent on the socket, in order
  coordinators,         \* detached coordinator threads, by position
  expired,              \* system_clock::now() is past the last encode_deadline
  pc,                   \* scheduler thread: "poll" or "get" (inside future::get)
  last_event,           \* the handler branch the poller ran last
  ts_in,                \* arguments of a stand-alone target_size call
  ts_out,               \* its return value
  at_in,                \* a TwoD or TwoDSubRange and the arguments of an at() call
  at_out                \* what the call returned or threw

vars == <<status, y_ac_qi, connection_id, rasters_read, last_raster, avg_delay,
          last_acked, cumulative_fpf, skipped_count, encoder, frame_no,
          encode_jobs, encode_outputs, encode_started_pipe, encode_ended_pipe,
          ticks_written, socket_in, acks_arrived, wire, coordinators, expired,
          pc, last_event, ts_in, ts_out, at_in, at_out>>

mainVars == <<status, y_ac_qi, connection_id, rasters_read, last_raster, avg_delay,
              last_acked, cumulative_fpf, skipped_count, encoder, frame_no,
              encode_jobs, encode_outputs, encode_started_pipe, encode_ended_pipe,
              ticks_written, socket_in, acks_arrived, wire, coordinators, expired,
              pc, last_event>>

----------------------------------------------------------------------------
(* Bounds of the model.                                                    *)

MaxRasters == 2
MaxTicks == 2
MaxAcks == 2
MaxAckFrame == 1
MaxSmall == 3

----------------------------------------------------------------------------
(* Fixed-width arithmetic.                                                 *)

LimbBase == 65536
SignLimb == 32768

U32(n) == <<n % LimbBase, n \div LimbBase>>
U64(n) == <<n % LimbBase, n \div LimbBase, 0, 0>>

UINT32_MAX == <<65535, 65535>>
UINT64_MAX == <<65535, 65535, 65535, 65535>>
INT64_MIN_BITS == <<0, 0, 0, SignLimb>>
INT64_MAX_BITS == <<65535, 65535, 65535, SignLimb - 1>>

\* a + b (mod 2^64)
Add64(a, b) ==
  LET s1 == a[1] + b[1]
      s2 == a[2] + b[2] + (s1 \div LimbBase)
      s3 == a[3] + b[3] + (s2 \div LimbBase)
      s4 == a[4] + b[4] + (s3 \div LimbBase)
  IN  <<s1 % LimbBase, s2 % LimbBase, s3 % LimbBase, s4 % LimbBase>>

\* a - b (mod 2^64)
Sub64(a, b) ==
  LET d1 == a[1] - b[1]
      d2 == a[2] - b[2] - (IF d1 < 0 THEN 1 ELSE 0)
      d3 == a[3] - b[3] - (IF d2 < 0 THEN 1 ELSE 0)
      d4 == a[4] - b[4] - (IF d3 < 0 THEN 1 ELSE 0)
  IN  <<d1 % LimbBase, d2 % LimbBase, d3 % LimbBase, d4 % LimbBase>>

\* a < b, both unsigned
Less64(a, b) ==
  \/ a[4] < b[4]
  \/ a[4] = b[4] /\ a[3] < b[3]
  \/ a[4] = b[4] /\ a[3] = b[3] /\ a[2] < b[2]
  \/ a[4] = b[4] /\ a[3] = b[3] /\ a[2] = b[2] /\ a[1] < b[1]

\* the sign of a 64-bit pattern read as int64_t
Negative64(a) == a[4] >= SignLimb

\* k * a for a small k, as an exact five-limb product (no reduction)
MulSmall64(k, a) ==
  LET p1 == k * a[1]
      p2 == k * a[2] + (p1 \div LimbBase)
      p3 == k * a[3] + (p2 \div LimbBase)
      p4 == k * a[4] + (p3 \div LimbBase)
  IN  <<p1 % LimbBase, p2 % LimbBase, p3 % LimbBase, p4 % LimbBase, p4 \div LimbBase>>

\* uint32_t division max_delay / avg_delay, max_delay < 2^17, avg_delay # 0
DivU32(max_delay, d) ==
  IF d[2] >= 2 THEN 0 ELSE max_delay \div (d[2] * LimbBase + d[1])

----------------------------------------------------------------------------
(* target_size( avg_delay, last_acked, last_sent ), lines 82-93.           *)
(* The result is the set of values the call can return: one value, except  *)
(* where 1400 * max(...) overflows long, which is undefined behaviour.     *)

MTU == 1400
MAX_DELAY == 100000

OverflowOutcomes == { U64(0), U64(MTU), UINT64_MAX }

target_size_noclamp(avg, last_acked_, last_sent) ==
  LET avg1 == IF avg = U32(0) THEN U32(1) ELSE avg
      diff == Sub64(U64(DivU32(MAX_DELAY, avg1)), Sub64(last_sent, last_acked_))
      prod == MulSmall64(MTU, diff)
  IN  IF prod[5] > 0 \/ prod[4] >= SignLimb
        THEN OverflowOutcomes \cup { <<prod[1], prod[2], prod[3], prod[4]>> }
        ELSE { <<prod[1], prod[2], prod[3], prod[4]>> }

target_size(avg, last_acked_, last_sent) ==
  LET avg1 == IF avg = U32(0) THEN U32(1) ELSE avg
      diff == Sub64(U64(DivU32(MAX_DELAY, avg1)), Sub64(last_sent, last_acked_))
      clamped == IF Negative64(diff) THEN U64(0) ELSE diff
      prod == MulSmall64(MTU, clamped)
  IN  IF prod[5] > 0 \/ prod[4] >= SignLimb
        THEN OverflowOutcomes \cup { <<prod[1], prod[2], prod[3], prod[4]>> }
        ELSE { <<prod[1], prod[2], prod[3], prod[4]>> }

----------------------------------------------------------------------------
(* Values.                                                                 *)

CONSTANT_QUANTIZER == "CONSTANT_QUANTIZER"
TARGET_FRAME_SIZE == "TARGET_FRAME_SIZE"

MAX_SKIPPED == 5

\* QUANTIZER arguments paranoid_atoi accepts (any unsigned int)
Quantizers == {32, 300}
\* CONNECTION_ID arguments
SessionIds == {1}
\* byte lengths the codec may produce for a frame (never empty)
FrameSizes == {1400, 4100}
\* what an out-of-range read of cumulative_fpf's storage can yield
GarbageWords == { UINT64_MAX }

\* conversion of unsigned int to the uint8_t field EncodeJob::y_ac_qi
Narrow8(n) == n % 256

\* EncodeJob( frame_no, raster, encoder ): mode, y_ac_qi, target_size defaults
EncodeJob(f, r, e) ==
  [frame_no |-> f, raster |-> r, encoder |-> e,
   mode |-> CONSTANT_QUANTIZER, y_ac_qi |-> 0, target_size |-> U64(0)]

\* the datagrams the receiver (or anyone else) can send to the socket
AckPackets ==
  [connection_id : {connection_id, connection_id + 1},
   frame_no : 0..MaxAckFrame,
   fragment_no : {1},
   avg_delay : {U32(MAX_DELAY)}]

\* do_encode_job: the encoder advances by the frame it encodes; the frame's
\* byte length is the codec's choice
do_encode_job_stale(job, size, time) ==
  LET param == IF job.mode = CONSTANT_QUANTIZER THEN <<job.y_ac_qi>> ELSE job.target_size
      frame == [raster |-> job.raster, mode |-> job.mode, param |-> param, size |-> size]
  IN  [encoder |-> job.encoder, frame |-> frame, encode_time |-> time]

do_encode_job(job, size, time) ==
  LET param == IF job.mode = CONSTANT_QUANTIZER THEN <<job.y_ac_qi>> ELSE job.target_size
      frame == [raster |-> job.raster, mode |-> job.mode, param |-> param, size |-> size]
  IN  [encoder |-> Append(job.encoder, frame), frame |-> frame, encode_time |-> time]

\* FragmentedFrame::fragments_in_this_frame(): payloads of up to 1400 bytes
fragments_in_this_frame(size) == (size + MTU - 1) \div MTU

\* cumulative_fpf[ k ] (operator[], unchecked): the values the read can yield
FpfRead(k) ==
  IF k < Len(cumulative_fpf)
    THEN { [crash |-> FALSE, value |-> cumulative_fpf[k + 1]] }
    ELSE { [crash |-> TRUE, value |-> U64(0)] }
         \cup { [crash |-> FALSE, value |-> g] : g \in GarbageWords }

\* cumulative_fpf.back(): undefined on an empty vector
FpfBack ==
  IF Len(cumulative_fpf) > 0
    THEN { [crash |-> FALSE, value |-> cumulative_fpf[Len(cumulative_fpf)]] }
    ELSE { [crash |-> TRUE, value |-> U64(0)] }
         \cup { [crash |-> FALSE, value |-> g] : g \in GarbageWords }

\* the value pushed onto cumulative_fpf for the frame being sent
NextCumulative_nosum(prev, n) == U64(n)

NextCumulative(prev, n) ==
  IF frame_no > 0 THEN Add64(prev, U64(n)) ELSE U64(n)

RemoveAt(s, i) == [k \in 1..(Len(s) - 1) |-> IF k < i THEN s[k] ELSE s[k + 1]]

----------------------------------------------------------------------------
(* The state after construction, lines 122-167.                            *)

InitMain ==
  /\ status = "running"
  /\ y_ac_qi \in Quantizers
  /\ connection_id \in SessionIds
  /\ rasters_read = 0
  /\ last_raster = <<>>
  /\ avg_delay = UINT32_MAX
  /\ last_acked = UINT64_MAX
  /\ cumulative_fpf = <<>>
  /\ skipped_count = 0
  /\ encoder = <<>>
  /\ frame_no = 0
  /\ encode_jobs = <<>>
  /\ encode_outputs = <<>>
  /\ encode_started_pipe = 0
  /\ encode_ended_pipe = 0
  /\ ticks_written = 0
  /\ socket_in = <<>>
  /\ acks_arrived = 0
  /\ wire = <<>>
  /\ coordinators = <<>>
  /\ expired = FALSE
  /\ pc = "poll"
  /\ last_event = "none"

Init ==
  /\ InitMain
  /\ ts_in = <<>>
  /\ ts_out = <<>>
  /\ at_in = <<>>
  /\ at_out = <<>>

\* the poller runs a handler: the scheduler thread is in poll() and the
\* process is alive
Polling == status = "running" /\ pc = "poll"

----------------------------------------------------------------------------
(* The environment and the other threads.                                  *)

\* the timer thread, lines 169-177
TimerTick ==
  /\ status = "running"
  /\ ticks_written < MaxTicks
  /\ ticks_written' = ticks_written + 1
  /\ encode_started_pipe' = encode_started_pipe + 1
  /\ UNCHANGED <<status, y_ac_qi, connection_id, rasters_read, last_raster,
                 avg_delay, last_acked, cumulative_fpf, skipped_count, encoder,
                 frame_no, encode_jobs, encode_outputs, encode_ended_pipe,
                 socket_in, acks_arrived, wire, coordinators, expired, pc,
                 last_event, ts_in, ts_out, at_in, at_out>>

\* a datagram arrives at the socket (one is delivered at a time)
AckArrives ==
  /\ status = "running"
  /\ acks_arrived < MaxAcks
  /\ socket_in = <<>>
  /\ \E ack \in AckPackets : socket_in' = Append(socket_in, ack)
  /\ acks_arrived' = acks_arrived + 1
  /\ UNCHANGED <<status, y_ac_qi, connection_id, rasters_read, last_raster,
                 avg_delay, last_acked, cumulative_fpf, skipped_count, encoder,
                 frame_no, encode_jobs, encode_outputs, encode_started_pipe,
                 encode_ended_pipe, ticks_written, wire, coordinators, expired,
                 pc, last_event, ts_in, ts_out, at_in, at_out>>

\* the wall clock passes the encode_deadline computed at line 214
DeadlineExpires ==
  /\ status = "running"
  /\ Len(encode_jobs) > 0
  /\ ~expired
  /\ expired' = TRUE
  /\ UNCHANGED <<status, y_ac_qi, connection_id, rasters_read, last_raster,
                 avg_delay, last_acked, cumulative_fpf, skipped_count, encoder,
                 frame_no, encode_jobs, encode_outputs, encode_started_pipe,
                 encode_ended_pipe, ticks_written, socket_in, acks_arrived, wire,
                 coordinators, pc, last_event, ts_in, ts_out, at_in, at_out>>

\* coordinator thread, lines 249-254: clear encode_outputs and launch one
\* async do_encode_job per entry of encode_jobs
CoordSpawn ==
  /\ status = "running"
  /\ \E i \in 1..Len(coordinators) :
       /\ coordinators[i] = "spawn"
       /\ coordinators' = [coordinators EXCEPT ![i] = "wait"]
  \* (the moved-from entries of encode_jobs are not read again: only size()
  \* and clear() are applied to the vector)
  /\ encode_outputs' = [j \in 1..Len(encode_jobs) |->
                          [valid |-> TRUE, ready |-> FALSE,
                           job |-> encode_jobs[j], output |-> <<>>]]
  /\ UNCHANGED <<status, y_ac_qi, connection_id, rasters_read, last_raster,
                 avg_delay, last_acked, cumulative_fpf, skipped_count, encoder,
                 frame_no, encode_jobs, encode_started_pipe, encode_ended_pipe,
                 ticks_written, socket_in, acks_arrived, wire, expired, pc,
                 last_event, ts_in, ts_out, at_in, at_out>>

\* line 260: one wake token is written, after the loop over the futures
TokensAfterPost_perFuture(n) == n + Len(encode_outputs) + 1

TokensAfterPost(n) == n + 1

\* coordinator thread, lines 256-260: wait_until( encode_deadline ) on every
\* future, then write the wake token. encode_deadline is captured by
\* reference and is a local of the handler that has returned, so the wait
\* can end at any moment, whether or not the job has finished.
CoordPost ==
  /\ status = "running"
  /\ \E i \in 1..Len(coordinators) :
       /\ coordinators[i] = "wait"
       /\ coordinators' = RemoveAt(coordinators, i)
  /\ encode_ended_pipe' = TokensAfterPost(encode_ended_pipe)
  /\ UNCHANGED <<status, y_ac_qi, connection_id, rasters_read, last_raster,
                 avg_delay, last_acked, cumulative_fpf, skipped_count, encoder,
                 frame_no, encode_jobs, encode_outputs, encode_started_pipe,
                 ticks_written, socket_in, acks_arrived, wire, expired, pc,
                 last_event, ts_in, ts_out, at_in, at_out>>

\* an async task running do_encode_job returns, lines 55-80
JobFinish ==
  /\ status = "running"
  /\ \E j \in 1..Len(encode_outputs) : \E size \in FrameSizes :
       /\ encode_outputs[j].valid
       /\ ~encode_outputs[j].ready
       /\ encode_outputs' =
            [encode_outputs EXCEPT
               ![j].ready = TRUE,
               ![j].output = <<do_encode_job(encode_outputs[j].job, size,
                                IF expired THEN "past_deadline" ELSE "within_deadline")>>]
  /\ UNCHANGED <<status, y_ac_qi, connection_id, rasters_read, last_raster,
                 avg_delay, last_acked, cumulative_fpf, skipped_count, encoder,
                 frame_no, encode_jobs, encode_started_pipe, encode_ended_pipe,
                 ticks_written, socket_in, acks_arrived, wire, coordinators,
                 expired, pc, last_event, ts_in, ts_out, at_in, at_out>>

----------------------------------------------------------------------------
(* The handlers of the poller, served one at a time by the scheduler       *)
(* thread.                                                                 *)

\* line 183: last_raster is assigned the raster just read, replacing any
\* raster it held
NextLastRaster_keepfirst(r) == IF last_raster = <<>> THEN <<r>> ELSE last_raster

NextLastRaster(r) == <<r>>

\* input action, lines 183-191: get_next_frame() yields a raster
InputRaster ==
  /\ Polling
  /\ rasters_read < MaxRasters
  /\ rasters_read' = rasters_read + 1
  /\ last_raster' = NextLastRaster(rasters_read + 1)
  /\ last_event' = "input_raster"
  /\ UNCHANGED <<status, y_ac_qi, connection_id, avg_delay, last_acked,
                 cumulative_fpf, skipped_count, encoder, frame_no, encode_jobs,
                 encode_outputs, encode_started_pipe, encode_ended_pipe,
                 ticks_written, socket_in, acks_arrived, wire, coordinators,
                 expired, pc, ts_in, ts_out, at_in, at_out>>

\* input action, lines 183-191: the stream (of MaxRasters frames) has ended;
\* the loop exits with EXIT_FAILURE (lines 336-338)
InputEof ==
  /\ Polling
  /\ rasters_read = MaxRasters
  /\ last_raster' = <<>>
  /\ status' = "exit_failure"
  /\ last_event' = "input_eof"
  /\ UNCHANGED <<y_ac_qi, connection_id, rasters_read, avg_delay, last_acked,
                 cumulative_fpf, skipped_count, encoder, frame_no, encode_jobs,
                 encode_outputs, encode_started_pipe, encode_ended_pipe,
                 ticks_written, socket_in, acks_arrived, wire, coordinators,
                 expired, pc, ts_in, ts_out, at_in, at_out>>

\* line 202: a frame is being encoded now
GenerationInFlight_never == FALSE

GenerationInFlight == Len(encode_jobs) > 0

\* lines 219-241: what the tick does with the job it has built. A plan is a
\* skip, a crash (cumulative_fpf.back() on an empty vector) or the job's
\* mode and parameter.
PlanFor(frame_size) ==
  IF frame_size = U64(0) /\ skipped_count < MAX_SKIPPED
    THEN [crash |-> FALSE, skip |-> TRUE, mode |-> TARGET_FRAME_SIZE,
          y_ac_qi |-> 0, target_size |-> U64(0)]
    ELSE IF frame_size = U64(0)
      THEN [crash |-> FALSE, skip |-> FALSE, mode |-> TARGET_FRAME_SIZE,
            y_ac_qi |-> 0, target_size |-> U64(MTU)]
      ELSE [crash |-> FALSE, skip |-> FALSE, mode |-> TARGET_FRAME_SIZE,
            y_ac_qi |-> 0, target_size |-> frame_size]

EncodingPlans ==
  IF TRUE \/ avg_delay = UINT32_MAX
    THEN { [crash |-> FALSE, skip |-> FALSE, mode |-> CONSTANT_QUANTIZER,
            y_ac_qi |-> Narrow8(y_ac_qi), target_size |-> U64(0)] }
    ELSE UNION { IF b.crash
                   THEN { [crash |-> TRUE, skip |-> FALSE, mode |-> TARGET_FRAME_SIZE,
                           y_ac_qi |-> 0, target_size |-> U64(0)] }
                   ELSE { PlanFor(fs) : fs \in target_size(avg_delay, last_acked, b.value) }
                 : b \in FpfBack }

\* line 212: last_raster.get() copies the handle; the Optional stays
\* initialized after the tick has used it
RasterAfterTick_moved == <<>>

RasterAfterTick == last_raster

\* encode_started_pipe action, lines 198-267
EncodeStarted ==
  /\ Polling
  /\ encode_started_pipe > 0
  /\ encode_started_pipe' = encode_started_pipe - 1
  /\ IF GenerationInFlight
       THEN /\ last_event' = "tick_busy"
            /\ UNCHANGED <<status, last_raster, skipped_count, encode_jobs,
                           coordinators, expired>>
       ELSE IF last_raster = <<>>
         THEN /\ last_event' = "tick_no_raster"
              /\ UNCHANGED <<status, last_raster, skipped_count, encode_jobs,
                             coordinators, expired>>
         ELSE \E plan \in EncodingPlans :
                IF plan.crash
                  THEN /\ status' = "crashed"
                       /\ last_event' = "tick_crashed"
                       /\ UNCHANGED <<last_raster, skipped_count, encode_jobs,
                                      coordinators, expired>>
                  ELSE IF plan.skip
                    THEN /\ skipped_count' = skipped_count + 1
                         /\ expired' = FALSE
                         /\ last_event' = "tick_skipped"
                         /\ last_raster' = RasterAfterTick
                         /\ UNCHANGED <<status, encode_jobs, coordinators>>
                    ELSE /\ encode_jobs' =
                              Append(encode_jobs,
                                     [EncodeJob(frame_no, last_raster[1], encoder)
                                        EXCEPT !.mode = plan.mode,
                                               !.y_ac_qi = plan.y_ac_qi,
                                               !.target_size = plan.target_size])
                         /\ coordinators' = Append(coordinators, "spawn")
                         /\ expired' = FALSE
                         /\ last_event' = "tick_started"
                         /\ last_raster' = RasterAfterTick
                         /\ UNCHANGED <<status, skipped_count>>
  /\ UNCHANGED <<y_ac_qi, connection_id, rasters_read, avg_delay,
                 last_acked, cumulative_fpf, encoder, frame_no, encode_outputs,
                 encode_ended_pipe, ticks_written, socket_in, acks_arrived, wire,
                 pc, ts_in, ts_out, at_in, at_out>>

\* line 276: future::valid() is true of every future that holds a shared
\* state, finished or not, until get() has been called on it
validity_predicate(o) == o.valid

AnyValid == \E j \in 1..Len(encode_outputs) : validity_predicate(encode_outputs[j])

\* line 284: find_if
FirstValid ==
  CHOOSE j \in 1..Len(encode_outputs) :
    /\ validity_predicate(encode_outputs[j])
    /\ \A k \in 1..(j - 1) : ~validity_predicate(encode_outputs[k])

\* encode_ended_pipe action, lines 272-285: read the token; with no valid
\* future clear the jobs and return, otherwise call get() on the first valid
\* future, which blocks the scheduler thread until that job has finished
EncodeEnded ==
  /\ Polling
  /\ encode_ended_pipe > 0
  /\ encode_ended_pipe' = encode_ended_pipe - 1
  /\ IF ~AnyValid
       THEN /\ encode_jobs' = <<>>
            /\ last_event' = "ended_discarded"
            /\ pc' = pc
       ELSE /\ pc' = "get"
            /\ last_event' = IF encode_outputs[FirstValid].ready
                                THEN "ended_ready" ELSE "ended_blocked"
            /\ UNCHANGED encode_jobs
  /\ UNCHANGED <<status, y_ac_qi, connection_id, rasters_read, last_raster,
                 avg_delay, last_acked, cumulative_fpf, skipped_count, encoder,
                 frame_no, encode_outputs, encode_started_pipe, ticks_written,
                 socket_in, acks_arrived, wire, coordinators, expired, ts_in,
                 ts_out, at_in, at_out>>

\* line 302
FrameNoAfterSend_same == frame_no

FrameNoAfterSend == frame_no + 1

\* encode_ended_pipe action, lines 285-306: get() returns the output; send
\* the frame, extend cumulative_fpf, commit the encoder, clear the jobs
EncodeEndedSend ==
  /\ status = "running"
  /\ pc = "get"
  /\ encode_outputs[FirstValid].ready
  /\ LET i == FirstValid
         output == encode_outputs[i].output[1]
         n == fragments_in_this_frame(output.frame.size)
     IN  /\ encode_outputs' = [encode_outputs EXCEPT ![i].valid = FALSE]
         /\ wire' = Append(wire, [connection_id |-> connection_id,
                                  frame_no |-> frame_no,
                                  fragments |-> n,
                                  frame |-> output.frame])
         /\ \E prev \in (IF frame_no > 0 THEN FpfRead(frame_no - 1)
                                         ELSE { [crash |-> FALSE, value |-> U64(0)] }) :
              IF prev.crash
                THEN /\ status' = "crashed"
                     /\ UNCHANGED <<cumulative_fpf, encoder, skipped_count, frame_no,
                                    encode_jobs, pc>>
                ELSE /\ cumulative_fpf' = Append(cumulative_fpf, NextCumulative(prev.value, n))
                     /\ encoder' = output.encoder
                     /\ skipped_count' = 0
                     /\ frame_no' = FrameNoAfterSend
                     /\ encode_jobs' = <<>>
                     /\ pc' = "poll"
                     /\ UNCHANGED status
  /\ last_event' = "ended_sent"
  /\ UNCHANGED <<y_ac_qi, connection_id, rasters_read, last_raster, avg_delay,
                 last_acked, encode_started_pipe, encode_ended_pipe,
                 ticks_written, socket_in, acks_arrived, coordinators, expired,
                 ts_in, ts_out, at_in, at_out>>

\* line 317: the datagram belongs to another session
connection_mismatch_never(ack) == FALSE

connection_mismatch(ack) == ack.connection_id # connection_id

\* lines 324-326: last_acked is overwritten with the index of the
\* acknowledged fragment; base is the cumulative count before its frame
NewLastAcked_monotone(base, ack) ==
  LET index == Add64(base, U64(ack.fragment_no))
  IN  IF Less64(index, last_acked) THEN last_acked ELSE index

NewLastAcked(base, ack) == Add64(base, U64(ack.fragment_no))

\* socket action, lines 312-329
AckReceived ==
  /\ Polling
  /\ socket_in # <<>>
  /\ socket_in' = Tail(socket_in)
  /\ LET ack == Head(socket_in)
     IN  IF connection_mismatch(ack)
           THEN /\ last_event' = "ack_foreign"
                /\ UNCHANGED <<status, avg_delay, last_acked>>
           ELSE IF ack.frame_no > 0
             THEN \E r \in FpfRead(ack.frame_no - 1) :
                    IF r.crash
                      THEN /\ status' = "crashed"
                           /\ avg_delay' = ack.avg_delay
                           /\ last_event' = "ack_crashed"
                           /\ UNCHANGED last_acked
                      ELSE /\ avg_delay' = ack.avg_delay
                           /\ last_acked' = NewLastAcked(r.value, ack)
                           /\ last_event' = "ack_accepted"
                           /\ UNCHANGED status
             ELSE /\ avg_delay' = ack.avg_delay
                  /\ last_acked' = NewLastAcked(U64(0), ack)
                  /\ last_event' = "ack_accepted"
                  /\ UNCHANGED status
  /\ UNCHANGED <<y_ac_qi, connection_id, rasters_read, last_raster,
                 cumulative_fpf, skipped_count, encoder, frame_no, encode_jobs,
                 encode_outputs, encode_started_pipe, encode_ended_pipe,
                 ticks_written, acks_arrived, wire, coordinators, expired, pc,
                 ts_in, ts_out, at_in, at_out>>

Next ==
  \/ TimerTick
  \/ AckArrives
  \/ DeadlineExpires
  \/ CoordSpawn
  \/ CoordPost
  \/ JobFinish
  \/ InputRaster
  \/ InputEof
  \/ EncodeStarted
  \/ EncodeEnded
  \/ EncodeEndedSend
  \/ AckReceived

Spec == Init /\ [][Next]_vars

----------------------------------------------------------------------------
(* target_size called on its own, over boundary and small arguments.       *)

\* floor( (2^63 - 1) / 1400 ): the largest factor whose product fits a long
LongMaxOverMtu == <<43441, 58420, 26588, 23>>

TSDelays ==
  { U32(0), U32(1), U32(50000), U32(MAX_DELAY), U32(MAX_DELAY + 1), UINT32_MAX }

TSWords ==
  { U64(n) : n \in 0..MaxSmall }
    \cup { U64(MAX_DELAY), LongMaxOverMtu, Add64(LongMaxOverMtu, U64(1)),
           INT64_MAX_BITS, INT64_MIN_BITS, Add64(INT64_MIN_BITS, U64(1)),
           UINT64_MAX }

InitTS ==
  /\ InitMain
  /\ ts_in \in { <<a, la, ls>> : a \in TSDelays, la \in TSWords, ls \in TSWords }
  /\ ts_out = <<>>
  /\ at_in = <<>>
  /\ at_out = <<>>

CallTargetSize ==
  /\ ts_out = <<>>
  /\ \E r \in target_size(ts_in[1], ts_in[2], ts_in[3]) : ts_out' = <<r>>
  /\ UNCHANGED <<mainVars, ts_in, at_in, at_out>>

NextTS == CallTargetSize

SpecTS == InitTS /\ [][NextTS]_vars

(* The claimed value over the integers, as an exact six-limb number:       *)
(* 1400 * max(0, 100000 / max(avg_delay, 1) - (last_sent - last_acked)).   *)

Widen(w) == <<w[1], w[2], w[3], w[4], 0, 0>>

\* q + e for a small q, exact (five limbs)
AddSmallWide(q, e) ==
  LET s1 == e[1] + (q % LimbBase)
      s2 == e[2] + (q \div LimbBase) + (s1 \div LimbBase)
      s3 == e[3] + (s2 \div LimbBase)
      s4 == e[4] + (s3 \div LimbBase)
  IN  <<s1 % LimbBase, s2 % LimbBase, s3 % LimbBase, s4 % LimbBase, s4 \div LimbBase>>

\* k * x for a five-limb x, exact (six limbs)
MulSmallWide(k, x) ==
  LET p1 == k * x[1]
      p2 == k * x[2] + (p1 \div LimbBase)
      p3 == k * x[3] + (p2 \div LimbBase)
      p4 == k * x[4] + (p3 \div LimbBase)
      p5 == k * x[5] + (p4 \div LimbBase)
  IN  <<p1 % LimbBase, p2 % LimbBase, p3 % LimbBase, p4 % LimbBase,
        p5 % LimbBase, p5 \div LimbBase>>

Quota(avg) == MAX_DELAY \div (IF avg[2] >= 2 THEN MAX_DELAY + 1
                              ELSE IF avg = U32(0) THEN 1
                              ELSE avg[2] * LimbBase + avg[1])

IntegerTarget(avg, la, ls) ==
  LET q == Quota(avg)
  IN  IF Less64(ls, la)
        THEN MulSmallWide(MTU, AddSmallWide(q, Sub64(la, ls)))
        ELSE LET d == Sub64(ls, la)
             IN  IF Less64(d, U64(q))
                   THEN Widen(U64(MTU * (q - (d[2] * LimbBase + d[1]))))
                   ELSE Widen(U64(0))

\* -2^63 <= 100000/max(avg,1) - (ls - la) <= floor((2^63 - 1) / 1400), over
\* the integers
DifferenceFitsLong(avg, la, ls) ==
  LET q == Quota(avg)
  IN  IF Less64(ls, la)
        THEN LET p == MulSmallWide(MTU, AddSmallWide(q, Sub64(la, ls)))
             IN  p[6] = 0 /\ p[5] = 0 /\ p[4] < SignLimb
        ELSE LET d == Sub64(ls, la)
             IN  Less64(d, U64(q)) \/ ~Less64(INT64_MIN_BITS, Sub64(d, U64(q)))

\* C6 (as claimed): for every avg_delay, last_acked and last_sent, including
\* last_acked > last_sent, target_size returns
\* 1400 * max(0, 100000 / max(avg_delay, 1) - (last_sent - last_acked))
\* computed over the integers.
C6_TargetSizeIsIntegerFormula ==
  ts_out # <<>> => Widen(ts_out[1]) = IntegerTarget(ts_in[1], ts_in[2], ts_in[3])

\* C6 (amended): whenever the integer difference
\* 100000 / max(avg_delay, 1) - (last_sent - last_acked) lies between -2^63
\* and floor((2^63 - 1) / 1400), target_size returns 1400 * max(0, that
\* difference); last_acked > last_sent included.
C6_TargetSizeInLongRange ==
  (ts_out # <<>> /\ DifferenceFitsLong(ts_in[1], ts_in[2], ts_in[3]))
    => Widen(ts_out[1]) = IntegerTarget(ts_in[1], ts_in[2], ts_in[3])

\* a call with last_acked > last_sent has returned a positive target
C6_Witness ==
  /\ ts_out # <<>>
  /\ Less64(ts_in[3], ts_in[2])
  /\ DifferenceFitsLong(ts_in[1], ts_in[2], ts_in[3])
  /\ ts_out[1] # U64(0)
  /\ ts_out[1] # U64(MTU * Quota(ts_in[1]))

----------------------------------------------------------------------------
(* Properties of the scheduler.                                            *)

\* generations between the tick that starts them and the return of the
\* handler that ends them: live coordinators, posted tokens not yet read,
\* and the handler blocked in get()
InFlightGenerations ==
  Len(coordinators) + encode_ended_pipe + (IF pc = "get" THEN 1 ELSE 0)

FeedbackKnown == avg_delay # UINT32_MAX

\* C1: in every reachable state at most one generation of encode jobs is in
\* flight; a tick handled while one is in flight starts no second one.
C1_AtMostOneGeneration ==
  /\ InFlightGenerations <= 1
  /\ Len(encode_jobs) <= 1
  /\ (InFlightGenerations = 1) = (Len(encode_jobs) = 1)

\* a tick has just been handled, and dropped, while a generation is in flight
C1_Witness ==
  /\ last_event = "tick_busy"
  /\ InFlightGenerations = 1
  /\ Len(encode_jobs) = 1

\* the deadline of the generation in flight has passed and none of its jobs
\* had finished by then
MissedDeadline ==
  /\ expired
  /\ Len(encode_jobs) > 0
  /\ \E j \in 1..Len(encode_outputs) : encode_outputs[j].valid
  /\ \A j \in 1..Len(encode_outputs) :
       encode_outputs[j].valid =>
         \/ ~encode_outputs[j].ready
         \/ encode_outputs[j].output[1].encode_time = "past_deadline"

\* C2: when no encode job of a generation has completed by the generation's
\* deadline, the generation-ended handler, which then starts with no job
\* finished, emits no frame and leaves frame_no, cumulative_fpf and the
\* committed encoder unchanged, and returns with the in-flight set cleared;
\* the late output is never sent.
C2_MissedGenerationDiscarded ==
  [][ ( /\ MissedDeadline
        /\ \/ /\ Polling
              /\ encode_ended_pipe' < encode_ended_pipe
              /\ \A j \in 1..Len(encode_outputs) : ~encode_outputs[j].ready
           \/ pc = "get" /\ last_event = "ended_blocked" )
        => /\ wire' = wire
           /\ frame_no' = frame_no
           /\ encoder' = encoder
           /\ cumulative_fpf' = cumulative_fpf
           /\ (pc' = "poll" => encode_jobs' = <<>>) ]_vars

\* C3: the committed encoder is exactly the result of encoding, in order,
\* the frames emitted on the wire; every job in flight holds the committed
\* state as its snapshot, and a finished job's new encoder state is that
\* snapshot advanced by the job's own frame (what the handler commits when it
\* sends the frame).
C3_CommittedEncoderIsWire ==
  /\ encoder = [k \in 1..Len(wire) |-> wire[k].frame]
  /\ \A j \in 1..Len(encode_jobs) : encode_jobs[j].encoder = encoder
  /\ \A j \in 1..Len(encode_outputs) :
       encode_outputs[j].valid =>
         /\ encode_outputs[j].job.encoder = encoder
         /\ encode_outputs[j].ready =>
              encode_outputs[j].output[1].encoder =
                Append(encoder, encode_outputs[j].output[1].frame)

\* the second frame has just been sent and committed
C3_Witness ==
  /\ last_event = "ended_sent"
  /\ Len(wire) = 2
  /\ Len(encoder) = 2

\* C4: while no ack with the session's connection id has been accepted,
\* every job spawned and every frame emitted is in ConstantQuantizer mode
\* with the quantizer equal to the configured QUANTIZER argument.
C4_ConstantQuantizerBeforeAck ==
  ~FeedbackKnown =>
    /\ \A j \in 1..Len(encode_jobs) :
         /\ encode_jobs[j].mode = CONSTANT_QUANTIZER
         /\ encode_jobs[j].y_ac_qi = y_ac_qi
    /\ \A k \in 1..Len(wire) :
         /\ wire[k].frame.mode = CONSTANT_QUANTIZER
         /\ wire[k].frame.param = <<y_ac_qi>>

\* C5: once an ack of the session has been accepted (feedback is known), a
\* valid tick that spawns a job spawns a TargetSize job, never a
\* ConstantQuantizer job.
C5_FeedbackDecidesMode ==
  (last_event = "tick_started" /\ FeedbackKnown) =>
    \A j \in 1..Len(encode_jobs) : encode_jobs[j].mode = TARGET_FRAME_SIZE

\* the feedback rule's target is 0 in this state (one frame at least sent)
TargetIsZero ==
  /\ FeedbackKnown
  /\ cumulative_fpf # <<>>
  /\ target_size(avg_delay, last_acked, cumulative_fpf[Len(cumulative_fpf)]) = { U64(0) }

C8_CumulativeFragments ==
  /\ Len(cumulative_fpf) = Len(wire)
  /\ \A k \in 1..Len(cumulative_fpf) :
       IF k = 1
         THEN /\ cumulative_fpf[1] = U64(wire[1].fragments)
              /\ Less64(U64(0), cumulative_fpf[1])
         ELSE /\ Sub64(cumulative_fpf[k], cumulative_fpf[k - 1]) = U64(wire[k].fragments)
              /\ Less64(cumulative_fpf[k - 1], cumulative_fpf[k])

\* two frames have been sent, the second one in several fragments
C8_Witness ==
  /\ Len(cumulative_fpf) = 2
  /\ wire[2].fragments > 1

\* C9: the length of cumulative_fpf equals frame_no equals the number of
\* frames emitted, and the emitted frames carry the numbers 0, 1, 2, ... in
\* order; dropped ticks consume no frame number.
C9_FrameNumbersConsecutive ==
  /\ Len(cumulative_fpf) = frame_no
  /\ Len(wire) = frame_no
  /\ \A k \in 1..Len(wire) : wire[k].frame_no = k - 1

\* two frames, numbered 0 and 1, have been sent
C9_Witness ==
  /\ Len(wire) = 2
  /\ frame_no = 2
  /\ wire[2].frame_no = 1

\* C10: an ack of the session whose frame_no names a frame not yet emitted
\* (cumulative_fpf has no entry frame_no - 1) is ignored: avg_delay and
\* last_acked are unchanged and the sender keeps running.
C10_UnsentFrameAckIgnored ==
  [][ ( /\ Polling
        /\ socket_in # <<>>
        /\ socket_in' = Tail(socket_in)
        /\ Head(socket_in).connection_id = connection_id
        /\ Head(socket_in).frame_no > 0
        /\ Head(socket_in).frame_no - 1 >= Len(cumulative_fpf) )
        => /\ avg_delay' = avg_delay
           /\ last_acked' = last_acked
           /\ status' = status ]_vars


----------------------------------------------------------------------------
(* The socket action, lines 312-329.                                       *)

\* a step in which the socket action handles the datagram at the head of
\* the socket's queue
AckStep == Polling /\ socket_in # <<>> /\ socket_in' = Tail(socket_in)

\* C11: an ack whose connection_id differs from the session's changes
\* nothing: avg_delay, last_acked, cumulative_fpf, frame_no, the in-flight
\* set and the committed encoder are as before, and the sender keeps running
C11_ForeignAckChangesNothing ==
  [][ (AckStep /\ Head(socket_in).connection_id # connection_id)
        => UNCHANGED <<avg_delay, last_acked, cumulative_fpf, frame_no,
                       encode_jobs, encode_outputs, coordinators, encoder,
                       skipped_count, status>> ]_vars

\* a foreign ack has been handled while a generation was in flight and
\* after an ack of the session had set the feedback
C11_Witness ==
  /\ last_event = "ack_foreign"
  /\ Len(encode_jobs) = 1
  /\ avg_delay = U32(MAX_DELAY)

\* the ack is of the session and names a frame that has been sent
AckInRange(ack) ==
  /\ ack.connection_id = connection_id
  /\ ack.frame_no <= Len(cumulative_fpf)

\* the cumulative fragment count before frame f
FragmentsBefore(f) == IF f > 0 THEN cumulative_fpf[f] ELSE U64(0)

\* C12: avg_delay and last_acked are written by the socket action only, and
\* an ack of the session for a sent frame overwrites them with
\* ack.avg_delay and (ack.frame_no > 0 ? cumulative_fpf[ack.frame_no - 1]
\* : 0) + ack.fragment_no, whatever earlier acks have set and whether or
\* not a generation is in flight
C12_LastAckWins ==
  [][ /\ (AckStep /\ AckInRange(Head(socket_in)))
          => /\ avg_delay' = Head(socket_in).avg_delay
             /\ last_acked' = Add64(FragmentsBefore(Head(socket_in).frame_no),
                                    U64(Head(socket_in).fragment_no))
      /\ (avg_delay' # avg_delay \/ last_acked' # last_acked) => AckStep ]_vars

\* the second ack handled is for frame 0 while two frames have been sent
\* and one ack was handled before: last_acked is at fragment 1
C12_Witness ==
  /\ last_event = "ack_accepted"
  /\ acks_arrived = 2
  /\ socket_in = <<>>
  /\ Len(cumulative_fpf) = 2
  /\ last_acked = U64(1)

----------------------------------------------------------------------------
(* The tick and input actions, lines 183-267.                              *)

\* a step in which the encode_started_pipe action reads one wake token
TickStep ==
  /\ Polling
  /\ encode_started_pipe > 0
  /\ encode_started_pipe' = encode_started_pipe - 1

\* C13: a tick handled while a generation is in flight or while no raster
\* is held is dropped: it spawns no job or coordinator and leaves frame_no,
\* the skip count, last_raster, the committed encoder and the in-flight set
\* as they were; its token is consumed, and a generation starts only in the
\* step that handles a tick with no generation in flight and a raster held
C13_DroppedTickHasNoEffect ==
  [][ /\ (TickStep /\ (Len(encode_jobs) > 0 \/ last_raster = <<>>))
          => UNCHANGED <<frame_no, skipped_count, last_raster, encoder,
                         encode_jobs, encode_outputs, coordinators,
                         encode_ended_pipe, cumulative_fpf, wire, status>>
      /\ (encode_jobs' # encode_jobs /\ encode_jobs' # <<>>)
          => (TickStep /\ Len(encode_jobs) = 0 /\ last_raster # <<>>) ]_vars

\* the only tick was handled before any raster had come; a raster has
\* arrived since, the pipe is empty and no generation has started
C13_Witness ==
  /\ ticks_written = 1
  /\ encode_started_pipe = 0
  /\ last_event = "input_raster"
  /\ rasters_read = 1
  /\ encode_jobs = <<>>
  /\ coordinators = <<>>
  /\ frame_no = 0

\* C14: the raster a generation encodes is the one most recently received
\* before its tick; rasters are encoded in the order received, so a raster
\* that was replaced before a tick used it is never encoded
C14_LatestRasterEncoded ==
  /\ last_event = "tick_started"
       => (Len(encode_jobs) = 1 /\ encode_jobs[1].raster = rasters_read)
  /\ \A k \in 1..(Len(wire) - 1) : wire[k].frame.raster <= wire[k + 1].frame.raster
  /\ \A j \in 1..Len(encode_jobs) : \A k \in 1..Len(wire) :
       wire[k].frame.raster <= encode_jobs[j].raster

\* two rasters came before the first valid tick: the generation encodes the
\* second one and the first one has not been and will not be encoded
C14_Witness ==
  /\ last_event = "tick_started"
  /\ rasters_read = 2
  /\ encode_jobs[1].raster = 2
  /\ wire = <<>>

----------------------------------------------------------------------------
(* The event loop, lines 334-341.                                          *)

\* C15: the sender leaves its loop only when the input ends, and then with
\* the failure exit status: the process is running, or it has exited with
\* EXIT_FAILURE from the input action
C15_ExitsOnlyOnEndOfInput ==
  /\ status \in {"running", "exit_failure"}
  /\ status = "exit_failure" => last_event = "input_eof"

\* C16: the scheduler thread is never blocked on an encode job: whenever
\* the generation-ended handler is inside get(), the job of that future has
\* finished
C16_HandlerNeverWaitsForJob ==
  pc = "get" => encode_outputs[FirstValid].ready

----------------------------------------------------------------------------
(* The coordinator thread and the shared vectors, lines 163-164, 246-307.  *)

\* C17: every generation gets exactly one generation-ended token: the tick
\* that starts it spawns one coordinator, a dropped or skipped tick spawns
\* none and posts nothing, a coordinator posts one token for the generation
\* in flight and is gone; while no generation is in flight no token is
\* pending, no coordinator is left and the handler is not running
C17_OneTokenPerGeneration ==
  /\ [](Len(encode_jobs) = 0
          => (encode_ended_pipe = 0 /\ coordinators = <<>> /\ pc = "poll"))
  /\ [][ /\ encode_ended_pipe' > encode_ended_pipe
             => /\ encode_ended_pipe = 0
                /\ encode_ended_pipe' = 1
                /\ Len(encode_jobs) = 1
                /\ pc = "poll"
                /\ coordinators' = <<>>
         /\ (TickStep /\ encode_jobs' = encode_jobs)
             => UNCHANGED <<coordinators, encode_ended_pipe>>
         /\ (encode_jobs' # encode_jobs /\ encode_jobs' # <<>>)
             => (coordinators = <<>> /\ Len(coordinators') = 1) ]_vars

\* the token of the second generation is pending
C17_Witness ==
  /\ encode_ended_pipe = 1
  /\ frame_no = 1
  /\ Len(encode_jobs) = 1
  /\ coordinators = <<>>

\* the rasters of the sent frames and of the job in flight, in order
SeedRasters ==
  [k \in 1..(Len(wire) + Len(encode_jobs)) |->
     IF k <= Len(wire) THEN wire[k].frame.raster
                       ELSE encode_jobs[k - Len(wire)].raster]

\* C18 as stated: no two generations are started on the same raster
C18_RasterSeedsOneGeneration ==
  \A j, k \in 1..Len(SeedRasters) : j # k => SeedRasters[j] # SeedRasters[k]

\* C18 amended: the tick that starts a generation encodes the raster held
\* in last_raster and leaves it there, where the next valid tick finds it
\* again unless the input action has replaced it
C18_RasterStaysAfterTick ==
  [][ (encode_jobs' # encode_jobs /\ encode_jobs' # <<>>)
        => /\ last_raster # <<>>
           /\ last_raster' = last_raster
           /\ encode_jobs'[Len(encode_jobs')].raster = last_raster[1] ]_vars

\* the second generation has started on the raster of the frame sent before
C18_Witness ==
  /\ last_event = "tick_started"
  /\ Len(wire) = 1
  /\ encode_jobs[1].raster = wire[1].frame.raster

\* C19: the generation-ended handler touches encode_jobs and encode_outputs
\* only when no coordinator is at work (the token it reads is the last thing
\* a coordinator does); there is never more than one coordinator; and when a
\* coordinator is about to clear and refill encode_outputs the handler of
\* the generation before has consumed every future in it
C19_NoConcurrentAccess ==
  /\ Len(coordinators) <= 1
  /\ (encode_ended_pipe > 0 \/ pc = "get") => coordinators = <<>>
  /\ \A i \in 1..Len(coordinators) :
       coordinators[i] = "spawn"
         => \A j \in 1..Len(encode_outputs) : ~encode_outputs[j].valid

\* the coordinator of the second generation is about to clear the consumed
\* future of the first
C19_Witness ==
  /\ coordinators = <<"spawn">>
  /\ Len(encode_outputs) = 1
  /\ ~encode_outputs[1].valid
  /\ frame_no = 1

----------------------------------------------------------------------------
(* TwoD and TwoDSubRange, src/dx3/2d.hh. A cell is named by the column and *)
(* row at which the constructor of the master TwoD created it.             *)

\* widths and heights of the grids examined
MaxDim == 2

\* what a call yields: a reference to a cell, or std::out_of_range
Returned(cell) == [thrown |-> FALSE, cell |-> cell]
OutOfRange == [thrown |-> TRUE, cell |-> <<>>]

\* TwoD( width, height ): width > 0, height > 0, cells emplaced row by row
TwoD(width, height) ==
  [width_ |-> width, height_ |-> height,
   storage_ |-> [i \in 1..(width * height) |->
                   <<(i - 1) % width, (i - 1) \div width>>]]

\* std::vector::at( n ): bounds-checked
VectorAt(v, n) == IF n < Len(v) THEN Returned(v[n + 1]) ELSE OutOfRange

\* TwoD::at( column, row )
TwoD_at(m, column, row) ==
  IF column > m.width_ \/ row > m.height_
    THEN OutOfRange
    ELSE VectorAt(m.storage_, row * m.width_ + column)

\* TwoDSubRange( master, column, row, width, height )
TwoDSubRange(master, column, row, width, height) ==
  [master_ |-> master, column_ |-> column, row_ |-> row,
   width_ |-> width, height_ |-> height]

\* TwoDSubRange( parent, column, row, width, height )
TwoDSubRangeOf(parent, column, row, width, height) ==
  [master_ |-> parent.master_,
   column_ |-> column + parent.column_, row_ |-> row + parent.row_,
   width_ |-> width, height_ |-> height]

\* TwoDSubRange::at( column, row )
TwoDSubRange_at(s, column, row) ==
  IF column > s.width_ \/ row > s.height_
    THEN OutOfRange
    ELSE TwoD_at(s.master_, s.column_ + column, s.row_ + row)

Dims == 1..MaxDim
\* arguments of at(): inside, on the edge and past it
Coords == 0..(MaxDim + 1)

Masters == { TwoD(w, h) : w \in Dims, h \in Dims }

\* the sub-ranges the first constructor accepts (asserts of lines 116-117)
SubRanges ==
  UNION { { s \in { TwoDSubRange(m, c, r, w, h) :
                      c \in 0..MaxDim, r \in 0..MaxDim,
                      w \in 0..MaxDim, h \in 0..MaxDim } :
              /\ s.column_ + s.width_ <= m.width_
              /\ s.row_ + s.height_ <= m.height_ }
          : m \in Masters }

\* the sub-ranges of sub-ranges the second constructor accepts (asserts of
\* lines 130-131)
NestedSubRanges ==
  UNION { { s \in { TwoDSubRangeOf(p, c, r, w, h) :
                      c \in 0..MaxDim, r \in 0..MaxDim,
                      w \in 0..MaxDim, h \in 0..MaxDim } :
              /\ s.column_ + s.width_ <= s.master_.width_
              /\ s.row_ + s.height_ <= s.master_.height_ }
          : p \in SubRanges }

InitAt ==
  /\ InitMain
  /\ ts_in = <<>>
  /\ ts_out = <<>>
  /\ at_in \in [object : Masters \cup SubRanges \cup NestedSubRanges,
                column : Coords, row : Coords]
  /\ at_out = <<>>

IsSubRange(object) == "master_" \in DOMAIN object

CallTwoDAt ==
  /\ at_in # <<>>
  /\ at_out = <<>>
  /\ ~IsSubRange(at_in.object)
  /\ at_out' = <<TwoD_at(at_in.object, at_in.column, at_in.row)>>
  /\ UNCHANGED <<mainVars, ts_in, ts_out, at_in>>

CallTwoDSubRangeAt ==
  /\ at_in # <<>>
  /\ at_out = <<>>
  /\ IsSubRange(at_in.object)
  /\ at_out' = <<TwoDSubRange_at(at_in.object, at_in.column, at_in.row)>>
  /\ UNCHANGED <<mainVars, ts_in, ts_out, at_in>>

NextAt ==
  \/ CallTwoDAt
  \/ CallTwoDSubRangeAt

SpecAt == InitAt /\ [][NextAt]_vars

\* the cell of the master that position ( column, row ) of the object names
CellAt(object, column, row) ==
  IF IsSubRange(object)
    THEN <<object.column_ + column, object.row_ + row>>
    ELSE <<column, row>>

\* C20: at( column, row ) on a TwoD or TwoDSubRange of width w and height h
\* returns the cell at that position when column < w and row < h, and throws
\* out_of_range when column >= w or row >= h
C20_AtIsBoundsChecked ==
  at_out # <<>>
    => IF at_in.column < at_in.object.width_ /\ at_in.row < at_in.object.height_
         THEN at_out[1] = Returned(CellAt(at_in.object, at_in.column, at_in.row))
         ELSE at_out[1] = OutOfRange

====
